---- MODULE Spec2Model ----
(***************************************************************************)
(* Document extraction pipeline: the text normalizer, the image resizer,   *)
(* the upload-triggered handler with its router and format extractors      *)
(* (try.py), and the standalone loader (doc_loader.py).                    *)
(*                                                                         *)
(* Strings are sequences of one-character strings, so that lower(),        *)
(* re.sub, splitlines, strip, startswith, splitext and basename are        *)
(* computed character by character as Python computes them.                *)
(***************************************************************************)
EXTENDS Integers, Sequences, FiniteSets, TLC

(***************************************************************************)
(* Bounds of the model.                                                    *)
(***************************************************************************)
MaxLen == 4
SmallEdge == 6
NearEdge == 3
MaxThousand == 10
MaxPages == 2
MaxImgs == 2
MaxRels == 2
MaxFail == 5
MaxInvocations == 2

\* Python's None where a string or a tuple is expected, and where a document is
None == <<"None">>
NoDoc == [none |-> TRUE]

(***************************************************************************)
(* Generic sequence helpers.                                               *)
(***************************************************************************)
Range(s) == {s[i] : i \in 1..Len(s)}

SeqsUpTo(S, n) == UNION {[1..k -> S] : k \in 0..n}

Max2(a, b) == IF a >= b THEN a ELSE b

\* s[from..] (1-based), the empty sequence when from is past the end
Drop(s, from) == SubSeq(s, from, Len(s))

\* str.startswith
StartsWith(s, p) == Len(s) >= Len(p) /\ SubSeq(s, 1, Len(p)) = p

\* str.endswith
EndsWith(s, p) == Len(s) >= Len(p) /\ SubSeq(s, Len(s) - Len(p) + 1, Len(s)) = p

\* str.rfind of a single character: the last index of c in s, 0 when absent
RFind(s, c) ==
  LET hits == {i \in 1..Len(s) : s[i] = c}
  IN IF hits = {} THEN 0 ELSE CHOOSE i \in hits : \A j \in hits : j <= i

(***************************************************************************)
(* Characters.                                                             *)
(***************************************************************************)
Uppers == <<"A","B","C","D","E","F","G","H","I","J","K","L","M",
            "N","O","P","Q","R","S","T","U","V","W","X","Y","Z">>
Lowers == <<"a","b","c","d","e","f","g","h","i","j","k","l","m",
            "n","o","p","q","r","s","t","u","v","w","x","y","z">>
Digits == {"0","1","2","3","4","5","6","7","8","9"}

\* str.lower on one character
LowerChar(c) ==
  IF \E i \in 1..26 : Uppers[i] = c
  THEN Lowers[CHOOSE i \in 1..26 : Uppers[i] = c]
  ELSE c

\* str.lower
Lower(s) == [i \in 1..Len(s) |-> LowerChar(s[i])]

\* the characters str.strip() and the regex class \s treat as whitespace
Whitespace == {" ", "\t", "\n", "\r", "\f"}

\* the line boundaries of str.splitlines (within the modelled characters)
LineBreaks == {"\n", "\r", "\f"}

\* re.sub(rf"[^{keep}]", "", s): delete every character outside keep
DeleteOutside(s, keep) == SelectSeq(s, LAMBDA c : c \in keep)

\* re.sub(r"[cls]+", rep, s): every maximal run of characters of cls becomes rep
RECURSIVE CollapseRuns(_, _, _)
CollapseRuns(s, cls, rep) ==
  IF s = <<>> THEN <<>>
  ELSE IF Head(s) \in cls
       THEN IF Len(s) >= 2 /\ s[2] \in cls
            THEN CollapseRuns(Tail(s), cls, rep)
            ELSE <<rep>> \o CollapseRuns(Tail(s), cls, rep)
       ELSE <<Head(s)>> \o CollapseRuns(Tail(s), cls, rep)

\* str.splitlines(): split at line boundaries ("\r\n" is one boundary); no
\* empty last line when s ends with a boundary; "" gives the empty list
RECURSIVE SplitLinesFrom(_, _)
SplitLinesFrom(s, cur) ==
  IF s = <<>> THEN (IF cur = <<>> THEN <<>> ELSE <<cur>>)
  ELSE IF Head(s) \in LineBreaks
       THEN LET rest == IF Head(s) = "\r" /\ Len(s) >= 2 /\ s[2] = "\n"
                        THEN Tail(Tail(s)) ELSE Tail(s)
            IN <<cur>> \o SplitLinesFrom(rest, <<>>)
       ELSE SplitLinesFrom(Tail(s), Append(cur, Head(s)))

SplitLines(s) == SplitLinesFrom(s, <<>>)

\* str.strip(): drop leading and trailing whitespace
Strip(s) ==
  LET keep == {i \in 1..Len(s) : s[i] \notin Whitespace}
  IN IF keep = {} THEN <<>>
     ELSE SubSeq(s, CHOOSE i \in keep : \A j \in keep : i <= j,
                    CHOOSE i \in keep : \A j \in keep : j <= i)

\* sep.join(parts)
RECURSIVE Join(_, _)
Join(parts, sep) ==
  IF parts = <<>> THEN <<>>
  ELSE IF Len(parts) = 1 THEN parts[1]
  ELSE parts[1] \o sep \o Join(Tail(parts), sep)

(***************************************************************************)
(* Text normalizer of try.py.                                              *)
(***************************************************************************)
\* the regex class a-z0-9\|\.\,\!\?\:\;\'\"\(\)\[\]\{\}\-\_\/\\
allowed ==
  Range(Lowers) \cup Digits \cup
  {"|", ".", ",", "!", "?", ":", ";", "'", "\"", "(", ")", "[", "]",
   "{", "}", "-", "_", "/", "\\"}

StripLines(lines) == [i \in 1..Len(lines) |-> Strip(lines[i])]

preprocess_text(text) ==
  LET t1 == Lower(text)
      t2 == DeleteOutside(t1, allowed \cup {"\n", " "})
      t3 == CollapseRuns(t2, {" ", "\t"}, " ")
      t4 == Join(StripLines(SplitLines(t3)), <<"\n">>)
  IN CollapseRuns(t4, {"\n"}, "\n")

(***************************************************************************)
(* Text normalizer of doc_loader.py.                                       *)
(***************************************************************************)
\* the regex class a-z0-9\.\,\!\?\s
loader_allowed ==
  Range(Lowers) \cup Digits \cup {".", ",", "!", "?"} \cup Whitespace

loader_preprocess_text(text) ==
  LET t1 == Lower(text)
      t2 == DeleteOutside(t1, loader_allowed \cup {"\n"})
      t3 == CollapseRuns(t2, {"\t", " "}, " ")
      ls == SelectSeq(SplitLines(t3), LAMBDA line : Strip(line) # <<>>)
  IN Join(StripLines(ls), <<"\n">>)

(***************************************************************************)
(* Image resizer of try.py.  A scale is the rational <<n, d>>.  Python     *)
(* holds it as a binary float (53-bit significand, round to nearest even): *)
(* n / d is rounded unless its reduced denominator is a power of two, and  *)
(* the product x * scale is rounded again.  For the sizes an image can     *)
(* have, a product whose exact value is not an integer is too far from one *)
(* for the rounding to change int(); a product whose exact value is an     *)
(* integer v comes out as v or just below v, as RoundedProduct computes.   *)
(***************************************************************************)
max_dim == 2048
max_pixels == 2048 * 2048

RECURSIVE Gcd(_, _)
Gcd(a, b) == IF b = 0 THEN a ELSE Gcd(b, a % b)

RECURSIVE IsPowerOfTwo(_)
IsPowerOfTwo(n) == n = 1 \/ (n > 1 /\ n % 2 = 0 /\ IsPowerOfTwo(n \div 2))

RECURSIVE FloorLog2(_)
FloorLog2(v) == IF v < 2 THEN 0 ELSE 1 + FloorLog2(v \div 2)

\* the least j with n * 2^j >= d
RECURSIVE ShiftTo(_, _)
ShiftTo(n, d) == IF n >= d THEN 0 ELSE 1 + ShiftTo(2 * n, d)

\* (a * 2^s) % d
RECURSIVE DoubleMod(_, _, _)
DoubleMod(a, s, d) == IF s = 0 THEN a % d ELSE DoubleMod((2 * a) % d, s - 1, d)

\* the scale is held exactly by a float
ExactScale(s) == IsPowerOfTwo(s[2] \div Gcd(s[1], s[2]))

\* int(x * (n / d)) in floats, for n < d with n / d rounded and x * n / d an
\* integer v.  The significand of n / d is n * 2^(52 + j) / d rounded, j the
\* least shift with n * 2^j >= d, and rho is the remainder of that division:
\* rounded up (2 * rho > d) the product is at least v; rounded down it is
\* v - x * rho / (d * 2^(52 + j)), which rounds back to v only when that
\* distance is at most half the gap between v and the float below it.
RoundedProduct(x, n, d) ==
  LET v == (x * n) \div d
      j == ShiftTo(n, d)
      rho == DoubleMod(n, 52 + j, d)
      half_gap == d * 2^(FloorLog2(v) + j - 1)
  IN IF 2 * rho > d THEN v
     ELSE IF x * rho * (IF IsPowerOfTwo(v) THEN 2 ELSE 1) <= half_gap THEN v
     ELSE v - 1

RatLess(a, b) == a[1] * b[2] < b[1] * a[2]

RatMin(a, b) == IF RatLess(b, a) THEN b ELSE a

\* min(max_dim / w, max_dim / h, 1.0)
InitialScale(w, h) == RatMin(RatMin(<<max_dim, w>>, <<max_dim, h>>), <<1, 1>>)

\* int(x * scale), scale being the initial scale (k = 0) or the initial scale
\* after k multiplications by 0.95, taken as the rational 19/20
IntScaled(x, s, k) ==
  IF k = 0 /\ (x * s[1]) % s[2] = 0 /\ ~ExactScale(s)
  THEN RoundedProduct(x, s[1], s[2])
  ELSE (x * s[1]) \div s[2]

\* scale *= 0.95
Shrink(s) == <<s[1] * 19, s[2] * 20>>

\* the loop test with >= for >
LoopTestInclusive(tw, th) == tw * th >= max_pixels

\* while int(w * scale) * int(h * scale) > max_pixels: scale *= 0.95
LoopTest(tw, th) == tw * th > max_pixels

\* the scale after the loop, the number of executions of its body, and the
\* size (int(w * scale), int(h * scale)) that scale gives
RECURSIVE ShrinkLoop(_, _, _, _)
ShrinkLoop(w, h, s, k) ==
  IF LoopTest(IntScaled(w, s, k), IntScaled(h, s, k))
  THEN ShrinkLoop(w, h, Shrink(s), k + 1)
  ELSE [scale |-> s, loops |-> k, target |-> <<IntScaled(w, s, k), IntScaled(h, s, k)>>]

\* the size handed to img.resize, with width and height exchanged
ResizeArgSwapped(t) == <<t[2], t[1]>>

\* the size handed to img.resize
ResizeArg(t) == <<t[1], t[2]>>

\* resize_image_if_needed on an image of size w x h: the size of the returned
\* image, whether img.resize is called for it (with that size), and the
\* number of executions of the loop body
RunResize(w, h, r) ==
  IF RatLess(r.scale, <<1, 1>>)
  THEN [size |-> ResizeArg(r.target), resize_called |-> TRUE, loops |-> r.loops]
  ELSE [size |-> <<w, h>>, resize_called |-> FALSE, loops |-> r.loops]

resize_image_if_needed(w, h) == RunResize(w, h, ShrinkLoop(w, h, InitialScale(w, h), 0))

(***************************************************************************)
(* Paths and keys (posixpath).                                             *)
(***************************************************************************)
\* os.path.splitext(p)[1]: from the last dot of the last component, unless
\* that component has nothing but dots before it
splitext_ext(p) ==
  LET sepIndex == RFind(p, "/")
      dotIndex == RFind(p, ".")
  IN IF dotIndex > sepIndex /\ \E i \in (sepIndex + 1)..(dotIndex - 1) : p[i] # "."
     THEN Drop(p, dotIndex)
     ELSE <<>>

\* os.path.basename(p)
basename(p) == Drop(p, RFind(p, "/") + 1)

DigitChars == <<"0","1","2","3","4","5","6","7","8","9">>

\* the decimal digits an f-string gives a non-negative integer
RECURSIVE IntToStr(_)
IntToStr(n) ==
  IF n < 10 THEN <<DigitChars[n + 1]>>
  ELSE IntToStr(n \div 10) \o <<DigitChars[(n % 10) + 1]>>

OUTPUT_PREFIX == <<"t", "r", "a", "i", "l", "-", "b", "a", "s", "e", "-", "v", "e", "d", "a", "n", "t", "-", "2", "0", "2", "5", "/">>
INPUT_PREFIX == <<"u", "p", "l", "o", "a", "d", "s", "/">>

(***************************************************************************)
(* What the parsing libraries make of a document.                          *)
(***************************************************************************)
MinImageBytes == 512

\* an embedded image: the length of its raw bytes, its size once decoded and
\* the encoding the PDF library reports
Images ==
  { [bytes |-> MinImageBytes - 1, size |-> <<16, 16>>, ext_chars |-> <<"p", "n", "g">>],
    [bytes |-> MinImageBytes, size |-> <<4096, 2048>>, ext_chars |-> <<"j", "p", "e", "g">>] }

\* page.extract_text(): a string, or None for a page without text
PageTexts == {None, <<"H", "i", "\n">>}

\* a PDF: its pages, each with its text and its images in in-page order
PdfPages == [text : PageTexts, images : SeqsUpTo(Images, MaxImgs)]

\* the sequences of n pages with at most m images between them
RECURSIVE PageSeqs(_, _)
PageSeqs(n, m) ==
  IF n = 0 THEN {<<>>}
  ELSE UNION { {<<pg>> \o rest : rest \in PageSeqs(n - 1, m - Len(pg.images))} :
               pg \in {p \in PdfPages : Len(p.images) <= m} }

\* the PDFs of at most MaxPages pages and MaxImgs images
PdfDocs == {[pages |-> ps] : ps \in UNION {PageSeqs(n, MaxImgs) : n \in 0..MaxPages}}

\* a DOCX body block: a paragraph, or a table as rows of cell texts
Paragraph(t) == [type |-> "Paragraph", text |-> t]
Table(rows) == [type |-> "Table", rows |-> rows]

DocxBodies ==
  { <<>>,
    <<Paragraph(<<"T", "i", "t", "l", "e">>)>>,
    <<Paragraph(<<"T", "i", "t", "l", "e">>), Table(<<<<<<"A">>, <<"b">>>>, <<<<"c">>, <<>>>>>>), Paragraph(<<>>)>> }

\* a DOCX relationship: whether "image" occurs in its reltype and in its
\* target_ref, and the size of the image it points to
Rels ==
  { [reltype_image |-> TRUE, target_ref_image |-> TRUE, size |-> <<100, 50>>],
    [reltype_image |-> FALSE, target_ref_image |-> FALSE, size |-> <<1, 1>>],
    [reltype_image |-> FALSE, target_ref_image |-> TRUE, size |-> <<1, 1>>] }

DocxDocs == [blocks : DocxBodies, rels : SeqsUpTo(Rels, MaxRels)]

\* a text file: its bytes decoded as UTF-8
TxtDocs == {[text |-> t] : t \in {<<>>, <<"H", "e", "l", "l", "o", " ", " ", " ", "W", "o", "r", "l", "d", "\n", "\n", "\n", "F", "o", "o">>, <<"\n", "#">>}}

\* a raster image: its size once decoded
ImgDocs == {[size |-> z] : z \in {<<100, 50>>, <<4096, 2048>>, <<1, 8192>>}}

(***************************************************************************)
(* Storage writes and processors of try.py.  A processor runs its fallible *)
(* steps in order; step 1 of an invocation is get_s3_object, and the       *)
(* processor's steps are numbered from 2.  fail is the number of the step  *)
(* that raises, 0 or a number past the last step when none does.           *)
(***************************************************************************)
\* the arguments of one s3.put_object call
put_s3_object(key_, content, content_type) ==
  [key |-> key_, body |-> content, content_type |-> content_type]

\* the PNG written for an image: resized, re-encoded
PngOf(src, size) ==
  [png_of |-> src,
   size |-> resize_image_if_needed(size[1], size[2]).size]

Ran(writes_) == [writes |-> writes_, raised |-> FALSE]
Raised(writes_) == [writes |-> writes_, raised |-> TRUE]

\* the rest of a processor after one more write
After(w, rest) == [writes |-> <<w>> \o rest.writes, raised |-> rest.raised]

TxtKey(base_key) == base_key \o <<"/", "t", "x", "t">>
ImgKey(base_key, idx) == base_key \o <<"/", "i", "m", "g", "_">> \o IntToStr(idx) \o <<".", "p", "n", "g">>

process_txt(content, base_key, fail) ==
  IF fail = 2 THEN Raised(<<>>)
  ELSE Ran(<<put_s3_object(TxtKey(base_key), preprocess_text(content.text), "text/plain")>>)

process_image(content, base_key, fail) ==
  IF fail = 2 THEN Raised(<<>>)
  ELSE Ran(<<put_s3_object(base_key \o <<"/", "i", "m", "g", ".", "p", "n", "g">>, PngOf("content", content.size), "image/png")>>)

\* "\n".join(page.extract_text() or "" for page in reader.pages)
PdfText(doc_) ==
  Join([i \in 1..Len(doc_.pages) |->
          IF doc_.pages[i].text = None THEN <<>> ELSE doc_.pages[i].text], <<"\n">>)

\* for page in doc: for img in page.get_images(full=True): the images in
\* encounter order, each with its page and its place on the page
RECURSIVE PdfImagesFrom(_, _)
PdfImagesFrom(doc_, p) ==
  IF p > Len(doc_.pages) THEN <<>>
  ELSE [i \in 1..Len(doc_.pages[p].images) |->
          [page |-> p, index |-> i, image |-> doc_.pages[p].images[i]]]
       \o PdfImagesFrom(doc_, p + 1)

PdfImages(doc_) == PdfImagesFrom(doc_, 1)

\* the size filter with <= for <
TooSmallInclusive(im) == im.bytes <= MinImageBytes

\* if len(base["image"]) < 512: continue
TooSmall(im) == im.bytes < MinImageBytes

\* the index of the image written after the one written as idx
NextIdx(idx) == idx + 1

\* the image loop of process_pdf
RECURSIVE pdf_image_loop(_, _, _, _, _)
pdf_image_loop(imgs, idx, base_key, step, fail) ==
  IF imgs = <<>> THEN Ran(<<>>)
  ELSE IF step = fail THEN Raised(<<>>)
  ELSE IF TooSmall(Head(imgs).image)
       THEN pdf_image_loop(Tail(imgs), idx, base_key, step + 1, fail)
       ELSE After(put_s3_object(ImgKey(base_key, idx),
                                PngOf(<<Head(imgs).page, Head(imgs).index>>,
                                      Head(imgs).image.size),
                                "image/png"),
                  pdf_image_loop(Tail(imgs), NextIdx(idx), base_key, step + 1, fail))

\* the text object of a PDF or DOCX
TextObject(base_key, raw) ==
  put_s3_object(TxtKey(base_key), preprocess_text(raw), "text/plain")

\* the text part followed by the image part of a processor
TextThenImages(txt, rest) == After(txt, rest)

process_pdf(content, base_key, fail) ==
  IF fail = 2 THEN Raised(<<>>)
  ELSE TextThenImages(TextObject(base_key, PdfText(content)),
         IF fail = 3 THEN Raised(<<>>)
         ELSE pdf_image_loop(PdfImages(content), 1, base_key, 4, fail))

\* " | ".join(cell.text for cell in row.cells) for each row, then ""
TableLines(rows) ==
  [i \in 1..Len(rows) |-> Join(rows[i], <<" ", "|", " ">>)] \o << <<>> >>

RECURSIVE DocxLines(_)
DocxLines(blocks) ==
  IF blocks = <<>> THEN <<>>
  ELSE (IF Head(blocks).type = "Paragraph"
        THEN <<Head(blocks).text>>
        ELSE TableLines(Head(blocks).rows))
       \o DocxLines(Tail(blocks))

\* the image loop of process_docx; n is the place of the relationship
RECURSIVE docx_image_loop(_, _, _, _, _, _)
docx_image_loop(rels, n, idx, base_key, step, fail) ==
  IF rels = <<>> THEN Ran(<<>>)
  ELSE IF ~Head(rels).reltype_image
       THEN docx_image_loop(Tail(rels), n + 1, idx, base_key, step, fail)
  ELSE IF step = fail THEN Raised(<<>>)
  ELSE After(put_s3_object(ImgKey(base_key, idx),
                           PngOf(<<n>>, Head(rels).size), "image/png"),
             docx_image_loop(Tail(rels), n + 1, idx + 1, base_key, step + 1, fail))

process_docx(content, base_key, fail) ==
  IF fail = 2 THEN Raised(<<>>)
  ELSE TextThenImages(TextObject(base_key, Join(DocxLines(content.blocks), <<"\n">>)),
         docx_image_loop(content.rels, 1, 1, base_key, 3, fail))

(***************************************************************************)
(* Router and handler of try.py.                                           *)
(***************************************************************************)
\* the extension without .lower()
KeyExtCaseSensitive(key_) == splitext_ext(key_)

\* os.path.splitext(key)[1].lower()
KeyExt(key_) == Lower(splitext_ext(key_))

\* the branch process_file takes for an extension
Extractor(ext) ==
  IF ext = <<".", "t", "x", "t">> THEN "process_txt"
  ELSE IF ext = <<".", "p", "d", "f">> THEN "process_pdf"
  ELSE IF ext = <<".", "d", "o", "c", "x">> THEN "process_docx"
  ELSE IF ext \in {<<".", "p", "n", "g">>, <<".", "j", "p", "g">>, <<".", "j", "p", "e", "g">>} THEN "process_image"
  ELSE "unsupported"

\* the base key built under the input prefix
BaseKeyUnderInput(date_, name) == INPUT_PREFIX \o date_ \o <<"/">> \o name

\* f"{OUTPUT_PREFIX}{date}/{name}"
BaseKey(date_, name) == OUTPUT_PREFIX \o date_ \o <<"/">> \o name

process_file(key_, content, date_, fail) ==
  LET proc == Extractor(KeyExt(key_))
      base_key == BaseKey(date_, basename(key_))
      r == IF proc = "process_txt" THEN process_txt(content, base_key, fail)
           ELSE IF proc = "process_pdf" THEN process_pdf(content, base_key, fail)
           ELSE IF proc = "process_docx" THEN process_docx(content, base_key, fail)
           ELSE IF proc = "process_image" THEN process_image(content, base_key, fail)
           ELSE Ran(<<>>)
  IN [extractor |-> proc, writes |-> r.writes, raised |-> r.raised]

\* the guards of lambda_handler: the key goes on to process_file
Processable(key_) ==
  /\ ~EndsWith(key_, <<"/">>)
  /\ ~StartsWith(key_, OUTPUT_PREFIX)
  /\ StartsWith(key_, INPUT_PREFIX)

\* the except clause without its raise
HandlerOutcomeSwallowed(raised) == "returned"

\* except Exception: logger.exception(...); raise
HandlerOutcome(raised) == IF raised THEN "raised" ELSE "returned"

lambda_handler(key_, content, date_, fail) ==
  IF fail = 1
  THEN [called |-> FALSE, extractor |-> "none", writes |-> <<>>,
        outcome |-> HandlerOutcome(TRUE)]
  ELSE IF ~Processable(key_)
  THEN [called |-> FALSE, extractor |-> "none", writes |-> <<>>,
        outcome |-> HandlerOutcome(FALSE)]
  ELSE LET r == process_file(key_, content, date_, fail)
       IN [called |-> TRUE, extractor |-> r.extractor, writes |-> r.writes,
           outcome |-> HandlerOutcome(r.raised)]

(***************************************************************************)
(* Standalone loader of doc_loader.py.                                     *)
(***************************************************************************)
IMAGE_SAVE_DIR == <<"s", "t", "a", "t", "i", "c", "/", "i", "m", "a", "g", "e", "s">>
TEXT_SAVE_DIR == <<"s", "t", "a", "t", "i", "c", "/", "t", "e", "x", "t">>

\* os.path.join(dir, name)
PathJoin(dir, name) == dir \o <<"/">> \o name

\* os.path.splitext(p)[0]
splitext_root(p) == SubSeq(p, 1, Len(p) - Len(splitext_ext(p)))

\* a local variable that no assignment has reached
Unbound == <<"unbound">>

\* "\n".join([p.text for p in doc.paragraphs])
load_docx(content) ==
  LET ps == SelectSeq(content.blocks, LAMBDA b : b.type = "Paragraph")
  IN Join([i \in 1..Len(ps) |-> ps[i].text], <<"\n">>)

load_pdf(content) == PdfText(content)

load_txt(content) == content.text

\* the paths extract_images_from_docx saves, in order
RECURSIVE extract_images_from_docx(_, _)
extract_images_from_docx(rels, count) ==
  IF rels = <<>> THEN <<>>
  ELSE IF Head(rels).target_ref_image
       THEN <<PathJoin(IMAGE_SAVE_DIR, <<"i", "m", "a", "g", "e", "_">> \o IntToStr(count + 1) \o <<".", "p", "n", "g">>)>>
            \o extract_images_from_docx(Tail(rels), count + 1)
       ELSE extract_images_from_docx(Tail(rels), count)

\* the paths extract_images_from_pdf saves, in order
extract_images_from_pdf(content) ==
  LET imgs == PdfImages(content)
  IN [i \in 1..Len(imgs) |->
        PathJoin(IMAGE_SAVE_DIR,
                 <<"p", "d", "f", "_", "i", "m", "a", "g", "e", "_">> \o IntToStr(imgs[i].page) \o <<"_">>
                 \o IntToStr(imgs[i].index) \o <<".">> \o imgs[i].image.ext_chars)]

\* the locals raw_text and images after the if/elif chain, or the ValueError
LoadBranches(ext, content) ==
  IF ext = <<".", "p", "d", "f">>
  THEN [raw_text |-> load_pdf(content), images |-> extract_images_from_pdf(content),
        error |-> "none"]
  ELSE IF ext = <<".", "d", "o", "c", "x">>
  THEN [raw_text |-> load_docx(content),
        images |-> extract_images_from_docx(content.rels, 0), error |-> "none"]
  ELSE IF ext = <<".", "t", "x", "t">>
  THEN [raw_text |-> load_txt(content), images |-> Unbound, error |-> "none"]
  ELSE [raw_text |-> Unbound, images |-> Unbound, error |-> "ValueError"]

\* the image files on disk after the branch has run
SavedFiles(locals) == IF locals.images = Unbound THEN {} ELSE Range(locals.images)

load_and_process_doc(path, content) ==
  LET locals == LoadBranches(Lower(splitext_ext(path)), content)
  IN IF locals.error # "none"
     THEN [outcome |-> "raised", error |-> locals.error, value |-> None, files |-> {}]
     ELSE IF locals.images = Unbound
     THEN [outcome |-> "raised", error |-> "UnboundLocalError", value |-> None,
           files |-> SavedFiles(locals)]
     ELSE [outcome |-> "returned", error |-> "none",
           value |-> <<loader_preprocess_text(locals.raw_text), locals.images>>,
           files |-> SavedFiles(locals)]

\* the JSON file the main block writes from a returned pair
JsonFile(path, value) ==
  [path |-> PathJoin(TEXT_SAVE_DIR, splitext_root(basename(path)) \o <<".", "j", "s", "o", "n">>),
   object |-> [text |-> value[1], image_paths |-> value[2]]]

(***************************************************************************)
(* State.                                                                  *)
(***************************************************************************)
VARIABLES
  text,        \* normalizer: the input string
  once,        \* normalizer: preprocess_text(text)
  twice,       \* normalizer: preprocess_text(once)
  npc,         \* normalizer: "start", "once", "twice"
  img,         \* resizer: img.size of the input image, <<w, h>>
  resized,     \* resizer: the outcome of resize_image_if_needed(img)
  rpc,         \* resizer: "start", "done"
  store,       \* handler: the keys of the objects written to TARGET_BUCKET
  invocations, \* handler: the number of invocations so far
  key,         \* handler: the key of the last event
  date,        \* handler: datetime.now() as %d-%b-%y in the last invocation
  doc,         \* handler: what the parsing library made of the content
  failAt,      \* handler: the step that raised in the last invocation
  called,      \* handler: the last invocation reached process_file
  extractor,   \* handler: the branch process_file took
  writes,      \* handler: the put_object calls of the last invocation, in order
  outcome,     \* handler: "returned" or "raised"
  file_path,   \* loader: the path given to load_and_process_doc
  loaded,      \* loader: what the format library reads from the file
  result,      \* loader: the outcome of load_and_process_doc
  image_dir,   \* loader: the files in IMAGE_SAVE_DIR
  text_dir     \* loader: the files in TEXT_SAVE_DIR

nvars == <<text, once, twice, npc>>
rvars == <<img, resized, rpc>>
hvars == <<store, invocations, key, date, doc, failAt, called, extractor, writes, outcome>>
lvars == <<file_path, loaded, result, image_dir, text_dir>>
vars == <<text, once, twice, npc, img, resized, rpc, store, invocations, key, date,
          doc, failAt, called, extractor, writes, outcome, file_path, loaded,
          result, image_dir, text_dir>>

NormIdle == text = <<>> /\ once = None /\ twice = None /\ npc = "idle"
NoResize == [size |-> <<1, 1>>, resize_called |-> FALSE, loops |-> 0]
ResizeIdle == img = <<1, 1>> /\ resized = NoResize /\ rpc = "idle"
HandlerIdle ==
  /\ store = {} /\ invocations = 0 /\ key = <<>> /\ date = None /\ doc = NoDoc
  /\ failAt = 0 /\ called = FALSE /\ extractor = "none" /\ writes = <<>>
  /\ outcome = "none"
NoResult == [outcome |-> "none", error |-> "none", value |-> None, files |-> {}]
LoaderIdle ==
  /\ file_path = <<>> /\ loaded = NoDoc /\ result = NoResult
  /\ image_dir = {} /\ text_dir = {}

(***************************************************************************)
(* The normalizer applied to a string, and again to its own output.        *)
(***************************************************************************)
Chars == {"a", "A", "|", " ", "\t", "\n", "\r", "#"}

InitNorm ==
  /\ text \in SeqsUpTo(Chars, MaxLen)
  /\ once = None /\ twice = None /\ npc = "start"
  /\ ResizeIdle /\ HandlerIdle /\ LoaderIdle

Normalize ==
  /\ npc = "start"
  /\ once' = preprocess_text(text)
  /\ npc' = "once"
  /\ UNCHANGED <<text, twice, rvars, hvars, lvars>>

NormalizeAgain ==
  /\ npc = "once"
  /\ twice' = preprocess_text(once)
  /\ npc' = "twice"
  /\ UNCHANGED <<text, once, rvars, hvars, lvars>>

NextNorm == Normalize \/ NormalizeAgain

SpecNorm == InitNorm /\ [][NextNorm]_vars

(***************************************************************************)
(* The resizer applied to an image of a given size.                        *)
(***************************************************************************)
\* 2215 is an edge whose product with its own scale rounds below 2048
Edges ==
  (1..SmallEdge) \cup ((max_dim - NearEdge)..(max_dim + NearEdge))
  \cup {1000 * k : k \in 3..MaxThousand} \cup {2 * max_dim, 4 * max_dim}
  \cup {2215}

InitResize ==
  /\ img \in Edges \X Edges
  /\ resized = NoResize /\ rpc = "start"
  /\ NormIdle /\ HandlerIdle /\ LoaderIdle

ResizeImage ==
  /\ rpc = "start"
  /\ resized' = resize_image_if_needed(img[1], img[2])
  /\ rpc' = "done"
  /\ UNCHANGED <<img, nvars, hvars, lvars>>

NextResize == ResizeImage

SpecResize == InitResize /\ [][NextResize]_vars

(***************************************************************************)
(* Handler invocations.                                                    *)
(***************************************************************************)
Dates == {<<"0", "1", "-", "N", "o", "v", "-", "2", "6">>, <<"0", "2", "-", "N", "o", "v", "-", "2", "6">>}

Prefixes == {INPUT_PREFIX, OUTPUT_PREFIX, <<>>, <<"d", "o", "c", "s", "/">>}

Names ==
  { <<"a">> \o e : e \in
      {<<".", "t", "x", "t">>, <<".", "T", "X", "T">>, <<".", "p", "d", "f">>, <<".", "P", "d", "f">>, <<".", "d", "o", "c", "x">>, <<".", "p", "n", "g">>, <<".", "j", "p", "g">>,
       <<".", "j", "p", "e", "g">>, <<".", "J", "P", "E", "G">>, <<".", "c", "s", "v">>, <<>>} }
  \cup {<<>>, <<".", "t", "x", "t">>, <<"d", "/">>, <<"d", ".", "p", "d", "f", "/", "a">>, <<"a", ".", "b", ".", "t", "x", "t">>}

EventKeys ==
  {p \o n : p \in Prefixes, n \in Names}
  \cup {INPUT_PREFIX \o OUTPUT_PREFIX \o <<"a", ".", "t", "x", "t">>}

\* what the parsing library of a processor can make of the content
Parsed(proc, docs) == IF proc = "unsupported" THEN {NoDoc} ELSE docs[proc]

\* one invocation of lambda_handler, on an event for a key of keys or for an
\* object written earlier
Invoke(keys, dates, docs, fails, limit) ==
  /\ invocations < limit
  /\ \E k \in keys \cup store, f \in fails :
       LET runs == f # 1 /\ Processable(k)
       IN \E d \in (IF runs THEN dates ELSE {None}),
             c \in (IF runs THEN Parsed(Extractor(KeyExt(k)), docs) ELSE {NoDoc}) :
            \E r \in {lambda_handler(k, c, d, f)} :
               /\ key' = k /\ date' = d /\ doc' = c /\ failAt' = f
               /\ called' = r.called
               /\ extractor' = r.extractor
               /\ writes' = r.writes
               /\ outcome' = r.outcome
               /\ store' = store \cup {r.writes[i].key : i \in 1..Len(r.writes)}
               /\ invocations' = invocations + 1
  /\ UNCHANGED <<nvars, rvars, lvars>>

InitHandler == HandlerIdle /\ NormIdle /\ ResizeIdle /\ LoaderIdle

\* one invocation, over every modelled key and document
AllDocs ==
  [process_txt |-> TxtDocs, process_pdf |-> PdfDocs,
   process_docx |-> DocxDocs, process_image |-> ImgDocs]

NextHandler == Invoke(EventKeys, Dates, AllDocs, 0..MaxFail, 1)

SpecHandler == InitHandler /\ [][NextHandler]_vars

\* a sequence of invocations, over a few keys and one document of each format:
\* every object written is delivered again as an event
LoopKeys ==
  { INPUT_PREFIX \o <<"a", ".", "t", "x", "t">>, INPUT_PREFIX \o <<"a", ".", "p", "d", "f">>, INPUT_PREFIX \o <<"d", "/">>,
    INPUT_PREFIX \o <<"a", ".", "c", "s", "v">>, <<"d", "o", "c", "s", "/">> \o <<"a", ".", "t", "x", "t">>, OUTPUT_PREFIX \o <<"a", ".", "t", "x", "t">>,
    INPUT_PREFIX \o OUTPUT_PREFIX \o <<"a", ".", "p", "n", "g">> }

LoopDocs ==
  [process_txt |-> {[text |-> <<"H", "e", "l", "l", "o", " ", " ", " ", "W", "o", "r", "l", "d", "\n", "\n", "\n", "F", "o", "o">>]},
   process_pdf |-> {[pages |-> <<[text |-> None, images |-> ims]>>] :
                      ims \in [1..MaxImgs -> Images]},
   process_docx |-> {[blocks |-> <<>>, rels |-> <<r>>] : r \in Rels},
   process_image |-> {[size |-> <<100, 50>>]}]

NextLoop == Invoke(LoopKeys, {<<"0", "1", "-", "N", "o", "v", "-", "2", "6">>}, LoopDocs, {0, 1, 5}, MaxInvocations)

SpecLoop == InitHandler /\ [][NextLoop]_vars

(***************************************************************************)
(* Standalone runs of doc_loader.py: the main block on a file path.        *)
(***************************************************************************)
FilePaths == {<<"t", "e", "s", "t", ".", "d", "o", "c", "x">>, <<"a", ".", "p", "d", "f">>, <<"n", "o", "t", "e", "s", ".", "t", "x", "t">>, <<"n", "o", "t", "e", "s", ".", "T", "X", "T">>, <<"d", "a", "t", "a", ".", "c", "s", "v">>, <<"i", "n", "/", "b", ".", "P", "D", "F">>}

\* what the format library of a branch reads from the file
Loadable(ext) ==
  IF ext = <<".", "p", "d", "f">> THEN PdfDocs
  ELSE IF ext = <<".", "d", "o", "c", "x">> THEN DocxDocs
  ELSE IF ext = <<".", "t", "x", "t">> THEN TxtDocs
  ELSE {NoDoc}

Main ==
  /\ result.outcome = "none"
  /\ \E path \in FilePaths :
       \E c \in Loadable(Lower(splitext_ext(path))) :
         \E r \in {load_and_process_doc(path, c)} :
            /\ file_path' = path /\ loaded' = c /\ result' = r
            /\ image_dir' = image_dir \cup r.files
            /\ text_dir' = IF r.outcome = "returned"
                           THEN text_dir \cup {JsonFile(path, r.value)}
                           ELSE text_dir
  /\ UNCHANGED <<nvars, rvars, hvars>>

InitLoader == LoaderIdle /\ NormIdle /\ ResizeIdle /\ HandlerIdle

NextLoader == Main

SpecLoader == InitLoader /\ [][NextLoader]_vars

(***************************************************************************)
(* Properties.                                                             *)
(***************************************************************************)
Normalized == npc \in {"once", "twice"}

\* C1: the normalizer of try.py is idempotent: normalizing its own output
\* gives that output again.
C1_Idempotent == npc = "twice" => twice = once

\* the lines of s as separated by "\n", the first and the last included
LinesBetweenNewlines(s) == SplitLinesFrom(s \o <<"\n">>, <<>>)

\* C2: the output of the normalizer of try.py has no tab, no character outside
\* the allowed set, and no empty line (first and last included), so no two
\* adjacent newlines.
C2_CleanOutput ==
  Normalized =>
    /\ "\t" \notin Range(once)
    /\ Range(once) \subseteq allowed \cup {" ", "\n"}
    /\ once # <<>> => \A i \in 1..Len(LinesBetweenNewlines(once)) :
                         LinesBetweenNewlines(once)[i] # <<>>
    /\ \A i \in 1..(Len(once) - 1) : ~(once[i] = "\n" /\ once[i + 1] = "\n")

Resized == rpc = "done"

\* C3: the resizer never enlarges a dimension, returns at most 2048 on each
\* edge and at most 2048 * 2048 pixels, and returns an image that is within
\* 2048 on each edge unchanged.
C3_ResizeBounds ==
  Resized =>
    /\ resized.size[1] <= img[1]
    /\ resized.size[2] <= img[2]
    /\ Max2(resized.size[1], resized.size[2]) <= 2048
    /\ resized.size[1] * resized.size[2] <= 2048 * 2048
    /\ Max2(img[1], img[2]) <= 2048 => resized.size = img /\ ~resized.resize_called

\* an image with an edge above 2048 has been resized
C3_Witness ==
  Resized /\ img[1] > 2048 /\ img[2] > 1 /\ resized.resize_called /\ resized.size # img

SupportedExts == {<<".", "t", "x", "t">>, <<".", "p", "d", "f">>, <<".", "d", "o", "c", "x">>, <<".", "p", "n", "g">>, <<".", "j", "p", "g">>, <<".", "j", "p", "e", "g">>}

ExtractorOf ==
  [e \in SupportedExts |->
     IF e = <<".", "t", "x", "t">> THEN "process_txt"
     ELSE IF e = <<".", "p", "d", "f">> THEN "process_pdf"
     ELSE IF e = <<".", "d", "o", "c", "x">> THEN "process_docx"
     ELSE "process_image"]

\* C4: for a key whose lower-cased extension is not supported the router
\* writes nothing and returns normally; an extension that differs from a
\* supported one only in letter case selects the extractor of that one.
C4_UnsupportedSkipped ==
  called =>
    /\ Lower(splitext_ext(key)) \notin SupportedExts =>
         writes = <<>> /\ store = {} /\ outcome = "returned"
    /\ \A e \in SupportedExts :
         Lower(splitext_ext(key)) = e => extractor = ExtractorOf[e]

\* the router has skipped a key with an unsupported extension
C4_Witness ==
  /\ called /\ splitext_ext(key) = <<".", "c", "s", "v">>
  /\ writes = <<>> /\ outcome = "returned"

\* C5: process_file is called, and storage written, only for a key under the
\* input prefix that is no folder marker and is not under the output prefix;
\* every written key is under the output prefix, so none is a processable
\* key, and an event for a written key is neither processed nor written for.
C5_NoReprocessing ==
  /\ called => /\ StartsWith(key, INPUT_PREFIX)
               /\ ~EndsWith(key, <<"/">>)
               /\ ~StartsWith(key, OUTPUT_PREFIX)
  /\ writes # <<>> => called
  /\ \A k \in store : StartsWith(k, OUTPUT_PREFIX) /\ ~StartsWith(k, INPUT_PREFIX)
  /\ key \in store => ~called /\ writes = <<>>

\* an object written by an earlier invocation has come back as an event
C5_Witness ==
  invocations >= 2 /\ key \in store /\ ~called /\ outcome = "returned"

\* C6: load_and_process_doc returns a pair (text, image paths) for .pdf,
\* .docx and .txt, with an empty list of image paths for .txt.
C6_ReturnsPair ==
  (result.outcome # "none"
   /\ Lower(splitext_ext(file_path)) \in {<<".", "p", "d", "f">>, <<".", "d", "o", "c", "x">>, <<".", "t", "x", "t">>}) =>
    /\ result.outcome = "returned"
    /\ Lower(splitext_ext(file_path)) = <<".", "t", "x", "t">> => result.value[2] = <<>>

\* the base key of the last invocation
LastBase == OUTPUT_PREFIX \o date \o <<"/">> \o basename(key)

\* the key of the numbered image object j of the last invocation
LastImgKey(j) == LastBase \o <<"/", "i", "m", "g", "_">> \o IntToStr(j) \o <<".", "p", "n", "g">>

\* the images of the PDF of the last invocation that have at least 512 bytes
KeptImages == SelectSeq(PdfImages(doc), LAMBDA e : e.image.bytes >= 512)

\* C7: process_pdf writes one image object for each embedded image of at
\* least 512 bytes and none for a smaller one, under img_1.png .. img_N.png
\* without a gap, in encounter order.
C7_PdfImages ==
  (called /\ extractor = "process_pdf" /\ outcome = "returned") =>
    /\ Len(writes) = 1 + Len(KeptImages)
    /\ \A j \in 1..Len(KeptImages) :
         /\ writes[j + 1].key = LastImgKey(j)
         /\ writes[j + 1].body.png_of = <<KeptImages[j].page, KeptImages[j].index>>

\* a PDF with a discarded image on one page and a written one on the next has
\* been processed
C7_Witness ==
  /\ called /\ extractor = "process_pdf" /\ outcome = "returned"
  /\ Len(PdfImages(doc)) = 2 /\ PdfImages(doc)[2].page = 2
  /\ PdfImages(doc)[1].image.bytes < 512
  /\ Len(writes) = 2

\* the images a PDF or DOCX of the last invocation gives rise to, as the
\* numbers of the steps that write them
ImageSteps ==
  IF extractor = "process_pdf"
  THEN {3 + i : i \in {i \in 1..Len(PdfImages(doc)) : PdfImages(doc)[i].image.bytes >= 512}}
  ELSE {2 + i : i \in 1..Cardinality({i \in 1..Len(doc.rels) : doc.rels[i].reltype_image})}

\* the last step that can raise
LastStep ==
  IF extractor = "process_pdf" THEN 3 + Len(PdfImages(doc))
  ELSE 2 + Cardinality({i \in 1..Len(doc.rels) : doc.rels[i].reltype_image})

\* the keys of all the artifacts of the document, in order
AllArtifactKeys ==
  <<LastBase \o <<"/", "t", "x", "t">>>> \o [j \in 1..Cardinality(ImageSteps) |-> LastImgKey(j)]

\* C8: for a PDF or DOCX the text object is written first and the images in
\* increasing index order; when a step fails, exactly the artifacts before
\* the failure point are written, none after it, and lambda_handler raises.
C8_PrefixThenRaise ==
  (called /\ extractor \in {"process_pdf", "process_docx"}) =>
    /\ [i \in 1..Len(writes) |-> writes[i].key]
         = SubSeq(AllArtifactKeys, 1, Len(writes))
    /\ failAt \in 2..LastStep =>
         /\ outcome = "raised"
         /\ Len(writes) = Cardinality({2} \cup ImageSteps) - Cardinality({n \in {2} \cup ImageSteps : n >= failAt})
    /\ failAt \notin 2..LastStep =>
         outcome = "returned" /\ Len(writes) = Len(AllArtifactKeys)

\* a failure after the text object and the first image, with an image left
C8_Witness ==
  /\ called /\ extractor \in {"process_pdf", "process_docx"}
  /\ outcome = "raised"
  /\ Len(writes) = 2 /\ Len(AllArtifactKeys) > 2

\* C9: the shrink loop of the resizer terminates without executing its body:
\* the size given by the initial scale is already within 2048 * 2048 pixels.
C9_NoShrink == Resized => resized.loops = 0

\* an image above the pixel budget has been resized
C9_Witness ==
  Resized /\ img[1] * img[2] > 2048 * 2048 /\ resized.resize_called /\ resized.loops = 0

\* C10: the size the resizer asks img.resize for has both components >= 1.
C10_NonZeroTarget ==
  (Resized /\ resized.resize_called) => resized.size[1] >= 1 /\ resized.size[2] >= 1

====
